---- MODULE Spec2Model ----
(***************************************************************************)
(* The counter runtime of examples/counter/src/runtime.rs: the block       *)
(* format, the proof-of-work sealing loop (UnsealedBlock::seal), the       *)
(* state-transition function (Executor::execute_block) and the             *)
(* incremental builder (initialize_block / apply_extrinsic /               *)
(* finalize_block), against an abstract key-value store.                   *)
(*                                                                         *)
(* Representation.                                                         *)
(*  - Option<T> is a sequence of length 0 (None) or 1 (Some(x)).           *)
(*  - A u128 is its 16 base-256 digits, most significant first, so that    *)
(*    the full 128-bit width (and the carry out of it) is kept; the SCALE  *)
(*    encoding of a u128 is the 16 bytes least significant first.          *)
(*  - A u64 nonce is its 8 base-256 digits, most significant first, so     *)
(*    that the 64-bit width (and the carry out of it) is kept; its SCALE   *)
(*    encoding is the 8 bytes least significant first.                     *)
(*  - H256 is a sequence of 32 bytes.                                      *)
(*  - Sha3_256 is SHA3-256 itself (FIPS 202), byte for byte.  A nonce      *)
(*    that meets the difficulty is found after 65536 attempts on average   *)
(*    (8874 for the first block on genesis), so the blocks that are        *)
(*    sealed here are built on parents picked for a search that ends       *)
(*    within MaxSearch nonces; on any other parent the search is followed  *)
(*    for MaxSearch steps and then left running.                           *)
(***************************************************************************)
EXTENDS Integers, Sequences, FiniteSets, TLC

\* ------------------------------------------------------------------ bounds
\* longest operation list of a block handed to execute_block
MaxOps == 2
\* number of calls into the runtime in a run
MaxCalls == 3
\* largest nonce of an unmined block handed to execute_block
MaxNonce == 0
\* number of iterations of the loop of seal that are followed
MaxSearch == 3

\* --------------------------------------------------------- program constants
\* const DIFFICULTY: usize = 2;
DIFFICULTY == 2
\* width of a u128 in bytes
U128Bytes == 16
\* width of the u64 nonce in bytes
U64Bytes == 8
\* width of an H256 in bytes
H256Bytes == 32
\* SHA3-256: bytes absorbed per block, rounds of the permutation, lanes of
\* the state, bytes of a lane
Sha3Rate == 136
KeccakRoundCount == 24
LaneCount == 25
LaneBytes == 8

\* ------------------------------------------------------------------- Option
None == <<>>
Some(x) == <<x>>
IsSome(o) == Len(o) = 1
Unwrap(o) == o[1]

\* --------------------------------------------------------------- sequences
Repeat(b, n) == [i \in 1..n |-> b]
Reverse(s) == [i \in 1..Len(s) |-> s[Len(s) + 1 - i]]

RECURSIVE Flatten(_)
Flatten(ss) == IF ss = <<>> THEN <<>> ELSE Head(ss) \o Flatten(Tail(ss))

\* ------------------------------------------------------------------- u128
\* the u128 whose value is the small natural n (n < 2^24)
U128(n) == [i \in 1..U128Bytes |->
              IF i = U128Bytes THEN n % 256
              ELSE IF i = U128Bytes - 1 THEN (n \div 256) % 256
              ELSE IF i = U128Bytes - 2 THEN (n \div 65536) % 256
              ELSE 0]
\* u128::max_value() = 2^128 - 1
U128Max == Repeat(255, U128Bytes)

\* digit-wise addition from the least significant digit i down to 1 with
\* carry c in: <<carry out>> \o <<the 16 digits of the sum>>
RECURSIVE AddFrom(_, _, _, _)
AddFrom(a, b, i, c) ==
  IF i = 0 THEN <<c>>
  ELSE AddFrom(a, b, i - 1, (a[i] + b[i] + c) \div 256)
         \o <<(a[i] + b[i] + c) % 256>>

\* a + b overflows 128 bits
AddOverflows(a, b) == AddFrom(a, b, U128Bytes, 0)[1] = 1
\* a + b modulo 2^128
WrappingAdd(a, b) == Tail(AddFrom(a, b, U128Bytes, 0))

\* -------------------------------------------------------------------- u64
\* the u64 whose value is the small natural n (n < 2^31)
U64(n) == [i \in 1..U64Bytes |->
             IF i = U64Bytes THEN n % 256
             ELSE IF i = U64Bytes - 1 THEN (n \div 256) % 256
             ELSE IF i = U64Bytes - 2 THEN (n \div 65536) % 256
             ELSE IF i = U64Bytes - 3 THEN (n \div 16777216) % 256
             ELSE 0]
\* the value of a u64 below 2^31, read from its four low digits
U64Value(v) ==
  v[U64Bytes] + 256 * v[U64Bytes - 1] + 65536 * v[U64Bytes - 2]
    + 16777216 * v[U64Bytes - 3]
\* u64::max_value() = 2^64 - 1
U64Max == Repeat(255, U64Bytes)
\* v + 1 modulo 2^64
WrappingInc(v) == Tail(AddFrom(v, U64(1), U64Bytes, 0))

\* ------------------------------------------------------------------- codec
\* <u128 as Encode>::encode: 16 bytes, least significant first
EncodeU128(v) == Reverse(v)
\* <u128 as Decode>::decode: reads 16 bytes from the input, None when the
\* input is shorter; bytes after the 16th are left unread
DecodeU128(bytes) ==
  IF Len(bytes) < U128Bytes THEN None
  ELSE Some(Reverse(SubSeq(bytes, 1, U128Bytes)))
\* <u64 as Encode>::encode: 8 bytes, least significant first
EncodeU64(v) == Reverse(v)
\* compact length prefix of a Vec (single-byte mode, lengths below 64)
EncodeLen(n) == <<4 * n>>
\* #[derive(Encode)] enum Extrinsic { Add(u128) }: variant index, payload
EncodeExtrinsic(e) == <<0>> \o EncodeU128(e.add)
\* Option<H256>: 0 for None, 1 followed by the 32 bytes for Some
EncodeOptionH256(o) == IF IsSome(o) THEN <<1>> \o Unwrap(o) ELSE <<0>>
\* #[derive(Encode)] struct Block: the fields in declaration order
EncodeBlock(b) ==
  EncodeOptionH256(b.parent_hash)
    \o EncodeLen(Len(b.extrinsics))
    \o Flatten([i \in 1..Len(b.extrinsics) |-> EncodeExtrinsic(b.extrinsics[i])])
    \o EncodeU64(b.nonce)

\* -------------------------------------------------------------------- state
VARIABLES
  overflowChecks, \* build profile: TRUE when integer overflow panics (debug)
  store,          \* the key-value store this node executes and builds against
  replica,        \* the store of a second node, replaying blocks
  building,       \* Option<UnsealedBlock>: the block under construction
  candidate,      \* Option<Block>: the local `block` of a running seal()
  sealed,         \* Option<Block>: the block the last seal() returned
  submitted,      \* the extrinsics handed to apply_extrinsic, in order
  calls,          \* number of execute_block / apply_extrinsic calls so far
  last            \* the last call: its arguments, its result, its store I/O

vars == <<overflowChecks, store, replica, building, candidate,
          sealed, submitted, calls, last>>

\* ------------------------------------------------------------------ hashing
\* SHA3-256 (FIPS 202), as Sha3_256::digest computes it: the sponge over
\* Keccak-f[1600] with rate 136 bytes, domain byte 0x06 and a 32-byte output.
\* A lane is a 64-bit word kept as its 8 bytes, least significant first; the
\* state is its 25 lanes, lane x + 5 * y at position x + 5 * y + 1.

\* the element of a set of one element: Only({F(v) : v \in {e}}) is F(e),
\* with e computed once whatever the number of times F uses it
Only(S) == CHOOSE v \in S : TRUE

\* bitwise operations on 4-bit and on 8-bit numbers
XorNibble ==
  [a \in 0..15 |-> [b \in 0..15 |->
     ((a + b) % 2) + 2 * (((a \div 2) + (b \div 2)) % 2)
       + 4 * (((a \div 4) + (b \div 4)) % 2) + 8 * (((a \div 8) + (b \div 8)) % 2)]]
AndNibble ==
  [a \in 0..15 |-> [b \in 0..15 |->
     ((a % 2) * (b % 2)) + 2 * (((a \div 2) % 2) * ((b \div 2) % 2))
       + 4 * (((a \div 4) % 2) * ((b \div 4) % 2)) + 8 * ((a \div 8) * (b \div 8))]]
XorByte ==
  [a \in 0..255 |-> [b \in 0..255 |->
     16 * XorNibble[a \div 16][b \div 16] + XorNibble[a % 16][b % 16]]]
AndByte ==
  [a \in 0..255 |-> [b \in 0..255 |->
     16 * AndNibble[a \div 16][b \div 16] + AndNibble[a % 16][b % 16]]]

\* lane operations: a ^ b, !a & b, a.rotate_left(r)
XorLane(a, b) ==
  Only({[k \in 1..LaneBytes |-> XorByte[u[k]][v[k]]] : u \in {a}, v \in {b}})
AndNotLane(a, b) ==
  Only({[k \in 1..LaneBytes |-> AndByte[255 - u[k]][v[k]]] : u \in {a}, v \in {b}})
RotateLeft(a, r) ==
  Only({[k \in 1..LaneBytes |->
           ((u[((k + 15 - (r \div 8)) % 8) + 1] * 2^(r % 8)) % 256)
             + (u[((k + 14 - (r \div 8)) % 8) + 1] \div 2^(8 - (r % 8)))] :
        u \in {a}})

\* the rotation offsets of rho, for lane x + 5 * y at position x + 5 * y + 1
RotationOffsets ==
  << 0,  1, 62, 28, 27,
    36, 44,  6, 55, 20,
     3, 10, 43, 25, 39,
    41, 45, 15, 21,  8,
    18,  2, 61, 56, 14>>
\* the round constants of iota
RoundConstants ==
  <<<<  1,   0,   0,   0,   0,   0,   0,   0>>,
    <<130, 128,   0,   0,   0,   0,   0,   0>>,
    <<138, 128,   0,   0,   0,   0,   0, 128>>,
    <<  0, 128,   0, 128,   0,   0,   0, 128>>,
    <<139, 128,   0,   0,   0,   0,   0,   0>>,
    <<  1,   0,   0, 128,   0,   0,   0,   0>>,
    <<129, 128,   0, 128,   0,   0,   0, 128>>,
    <<  9, 128,   0,   0,   0,   0,   0, 128>>,
    <<138,   0,   0,   0,   0,   0,   0,   0>>,
    <<136,   0,   0,   0,   0,   0,   0,   0>>,
    <<  9, 128,   0, 128,   0,   0,   0,   0>>,
    << 10,   0,   0, 128,   0,   0,   0,   0>>,
    <<139, 128,   0, 128,   0,   0,   0,   0>>,
    <<139,   0,   0,   0,   0,   0,   0, 128>>,
    <<137, 128,   0,   0,   0,   0,   0, 128>>,
    <<  3, 128,   0,   0,   0,   0,   0, 128>>,
    <<  2, 128,   0,   0,   0,   0,   0, 128>>,
    <<128,   0,   0,   0,   0,   0,   0, 128>>,
    << 10, 128,   0,   0,   0,   0,   0,   0>>,
    << 10,   0,   0, 128,   0,   0,   0, 128>>,
    <<129, 128,   0, 128,   0,   0,   0, 128>>,
    <<128, 128,   0,   0,   0,   0,   0, 128>>,
    <<  1,   0,   0, 128,   0,   0,   0,   0>>,
    <<  8, 128,   0, 128,   0,   0,   0, 128>>>>

\* theta: every lane is xored with the parities of two neighbouring columns
ThetaC(A) ==
  [c \in 1..5 |->
     XorLane(XorLane(XorLane(XorLane(A[c], A[c + 5]), A[c + 10]), A[c + 15]),
             A[c + 20])]
ThetaD(C) ==
  [c \in 1..5 |-> XorLane(C[((c + 3) % 5) + 1], RotateLeft(C[(c % 5) + 1], 1))]
Theta(A) ==
  Only({[i \in 1..LaneCount |-> XorLane(S[i], D[((i - 1) % 5) + 1])] :
        S \in {A}, D \in {ThetaD(C) : C \in {ThetaC(A)}}})
\* rho and pi: lane (x, y) is rotated and moved to (y, 2x + 3y); the lane at
\* (x, y) afterwards is the one that was at (x + 3y, x)
RhoPi(A) ==
  Only({[i \in 1..LaneCount |->
           LET x == (i - 1) % 5
               y == (i - 1) \div 5
               from == ((x + 3 * y) % 5) + 5 * x + 1
           IN  RotateLeft(S[from], RotationOffsets[from])] :
        S \in {A}})
\* chi: a[x] ^= !a[x + 1] & a[x + 2] along every row
Chi(A) ==
  Only({[i \in 1..LaneCount |->
           LET x == (i - 1) % 5
               row == 5 * ((i - 1) \div 5)
           IN  XorLane(S[i], AndNotLane(S[row + ((x + 1) % 5) + 1],
                                        S[row + ((x + 2) % 5) + 1]))] :
        S \in {A}})
\* iota: the round constant is xored into lane (0, 0)
Iota(A, round) ==
  Only({[i \in 1..LaneCount |->
           IF i = 1 THEN XorLane(S[1], RoundConstants[round]) ELSE S[i]] :
        S \in {A}})

\* Keccak-f[1600]: 24 rounds
RECURSIVE KeccakRounds(_, _)
KeccakRounds(A, round) ==
  IF round > KeccakRoundCount THEN A
  ELSE Only({KeccakRounds(B, round + 1) :
             B \in {Iota(Chi(RhoPi(Theta(A))), round)}})
KeccakF(A) == KeccakRounds(A, 1)

\* pad10*1 with the SHA-3 domain bits: 0x06, zeros, 0x80 up to a whole
\* number of blocks of Sha3Rate bytes (0x86 when one byte is missing)
Sha3Pad(bytes) ==
  Only({b \o [k \in 1..missing |->
                IF missing = 1 THEN 134
                ELSE IF k = 1 THEN 6
                ELSE IF k = missing THEN 128
                ELSE 0] :
        b \in {bytes}, missing \in {Sha3Rate - (Len(bytes) % Sha3Rate)}})
\* the sponge absorbing the padded input block by block
RECURSIVE Sha3Absorb(_, _)
Sha3Absorb(A, padded) ==
  IF padded = <<>> THEN A
  ELSE Only({Sha3Absorb(B, rest) :
             B \in {KeccakF([i \in 1..LaneCount |->
                        IF 8 * i <= Sha3Rate
                          THEN XorLane(A[i], SubSeq(padded, 8 * i - 7, 8 * i))
                        ELSE A[i]])},
             rest \in {SubSeq(padded, Sha3Rate + 1, Len(padded))}})
\* Sha3_256::digest: the first 32 bytes of the state after absorbing
Sha3_256(bytes) ==
  Only({[k \in 1..H256Bytes |-> A[((k - 1) \div 8) + 1][((k - 1) % 8) + 1]] :
        A \in {Sha3Absorb(S, p) :
                 S \in {[i \in 1..LaneCount |-> Repeat(0, LaneBytes)]},
                 p \in {Sha3Pad(bytes)}}})

\* fn is_all_zero(arr: &[u8]) -> bool
is_all_zero(arr) == \A i \in 1..Len(arr) : arr[i] = 0

\* ------------------------------------------------------------------- blocks
\* Block::genesis()
genesis == [parent_hash |-> None, extrinsics |-> <<>>, nonce |-> U64(0)]
\* <Block as BlockT>::parent_id
parent_id(block) == block.parent_hash

\* Extrinsic::Add(add)
Add(v) == [variant |-> "Add", add |-> v]

\* --------------------------------------------------------- sealable bodies
\* A block with no parent and no extrinsics, as genesis is, with nonce n.
FirstBlock(n) == [parent_hash |-> None, extrinsics |-> <<>>, nonce |-> U64(n)]
\* For every list of up to three magnitudes out of 3 and 5: an n for which
\* the body carrying that list on FirstBlock(n) is sealed by the nonce given
\* third, the search of seal ending within MaxSearch - 1 iterations.  The
\* digest of the body without extrinsics has, at nonce 0, a zero first byte
\* and a non-zero second byte.
EasyParents ==
  {<<<<>>,        43156488, 2>>,
   <<<<3>>,       99587,  1>>,
   <<<<5>>,       30678,  0>>,
   <<<<3, 3>>,    94411,  1>>,
   <<<<3, 5>>,    12176,  2>>,
   <<<<5, 3>>,    20850,  1>>,
   <<<<5, 5>>,    79218,  1>>,
   <<<<3, 3, 3>>, 88627,  1>>,
   <<<<3, 3, 5>>, 156444, 1>>,
   <<<<3, 5, 3>>, 38775,  1>>,
   <<<<3, 5, 5>>, 85601,  1>>,
   <<<<5, 3, 3>>, 165881, 1>>,
   <<<<5, 3, 5>>, 43689,  1>>,
   <<<<5, 5, 3>>, 20414,  1>>,
   <<<<5, 5, 5>>, 6709,   1>>}
\* the magnitudes of a list of extrinsics (all below 256 here)
MagnitudesOf(extrinsics) ==
  [i \in 1..Len(extrinsics) |-> extrinsics[i].add[U128Bytes]]
\* the parent picked for a body that carries extrinsics
EasyParent(extrinsics) ==
  FirstBlock((CHOOSE p \in EasyParents : p[1] = MagnitudesOf(extrinsics))[2])

\* the list of extrinsics with the magnitudes ms
ExtrinsicsOf(ms) == [i \in 1..Len(ms) |-> Add(U128(ms[i]))]

\* The digests of the blocks that occur in the runs, computed once.
\* The bodies built on a picked parent, and the body without extrinsics
\* built on genesis:
ChildBodies ==
  {[parent |-> FirstBlock(p[2]), extrinsics |-> ExtrinsicsOf(p[1])] : p \in EasyParents}
    \cup {[parent |-> genesis, extrinsics |-> <<>>]}
BlockDigest(block) == Sha3_256(EncodeBlock(block))
\* the digests of their parents
ParentDigests == [block \in {c.parent : c \in ChildBodies} |-> BlockDigest(block)]
\* these bodies with every nonce the search of seal is followed to
Children ==
  {[parent_hash |-> Some(ParentDigests[c.parent]),
    extrinsics  |-> c.extrinsics,
    nonce       |-> U64(n)] : c \in ChildBodies, n \in 0..MaxSearch}
ChildDigests == [block \in Children |-> BlockDigest(block)]
\* the bodies without extrinsics built on those of these blocks that have
\* no extrinsics and meet the difficulty, with every such nonce
GrandChildren ==
  {[parent_hash |-> Some(ChildDigests[c]), extrinsics |-> <<>>, nonce |-> U64(n)] :
     c \in {b \in Children : /\ b.extrinsics = <<>>
                             /\ is_all_zero(SubSeq(ChildDigests[b], 1, DIFFICULTY))},
     n \in 0..MaxSearch}
GrandChildDigests == [block \in GrandChildren |-> BlockDigest(block)]
KnownDigests == ParentDigests @@ ChildDigests @@ GrandChildDigests

\* <Block as BlockT>::id: the SHA3-256 digest of the encoded block
id(block) ==
  IF block \in DOMAIN KnownDigests THEN KnownDigests[block]
  ELSE Sha3_256(EncodeBlock(block))

\* ---------------------------------------------------------- externalities
\* The store is the framework's StorageExternalities: read_storage is
\* fallible, write_storage returns nothing.  An externalities value carries
\* the key-value map and the log of the accesses made through it.
CounterKey == "counter"
OtherKey == "other"
Keys == {CounterKey, OtherKey}
\* the failure a store read can report
StoreFault == "Unavailable"

Ok(v) == [ok |-> TRUE, val |-> v, err |-> [kind |-> "None", cause |-> "None"]]
Err(kind, cause) == [ok |-> FALSE, val |-> <<>>, err |-> [kind |-> kind, cause |-> cause]]

Externalities(kv) == [kv |-> kv, log |-> <<>>]
\* StorageExternalities::read_storage; fault is Some(cause) when the read fails
read_storage(state, key, fault) ==
  [res   |-> IF IsSome(fault) THEN Err("Store", Unwrap(fault)) ELSE Ok(state.kv[key]),
   state |-> [state EXCEPT !.log = Append(@, [op |-> "read", key |-> key])]]
\* StorageExternalities::write_storage
write_storage(state, key, value) ==
  [kv  |-> [state.kv EXCEPT ![key] = Some(value)],
   log |-> Append(state.log, [op |-> "write", key |-> key])]

\* ----------------------------------------------------------------- executor
\* a panic of the running thread (arithmetic overflow in a checked build)
Panic == [ok |-> FALSE, val |-> <<>>,
          err |-> [kind |-> "Panic", cause |-> "attempt to add with overflow"]]

\* read_counter with undecodable bytes read as zero
read_counter_CoercesToZero(state, fault) ==
  LET r == read_storage(state, CounterKey, fault) IN
  [state |-> r.state,
   res   |-> IF ~r.res.ok THEN Err("Backend", r.res.err.cause)
             ELSE IF IsSome(r.res.val)
               THEN LET d == DecodeU128(Unwrap(r.res.val)) IN
                    IF IsSome(d) THEN Ok(Unwrap(d)) ELSE Ok(U128(0))
             ELSE Ok(U128(0))]

\* read_counter with a missing entry treated as corruption
read_counter_AbsentIsCorrupt(state, fault) ==
  LET r == read_storage(state, CounterKey, fault) IN
  [state |-> r.state,
   res   |-> IF ~r.res.ok THEN Err("Backend", r.res.err.cause)
             ELSE IF IsSome(r.res.val)
               THEN LET d == DecodeU128(Unwrap(r.res.val)) IN
                    IF IsSome(d) THEN Ok(Unwrap(d)) ELSE Err("StateCorruption", "None")
             ELSE Err("StateCorruption", "None")]

\* read_counter with a failed read taken for a missing entry
read_counter_SwallowsFault(state, fault) ==
  LET r == read_storage(state, CounterKey, fault) IN
  [state |-> r.state,
   res   |-> IF ~r.res.ok THEN Ok(U128(0))
             ELSE IF IsSome(r.res.val)
               THEN LET d == DecodeU128(Unwrap(r.res.val)) IN
                    IF IsSome(d) THEN Ok(Unwrap(d)) ELSE Err("StateCorruption", "None")
             ELSE Ok(U128(0))]

\* Executor::read_counter
read_counter(state, fault) ==
  LET r == read_storage(state, CounterKey, fault) IN
  [state |-> r.state,
   res   |-> IF ~r.res.ok THEN Err("Backend", r.res.err.cause)
             ELSE IF IsSome(r.res.val)
               THEN LET d == DecodeU128(Unwrap(r.res.val)) IN
                    IF IsSome(d) THEN Ok(Unwrap(d)) ELSE Err("StateCorruption", "None")
             ELSE Ok(U128(0))]

\* write_counter encoding the counter as a u64
write_counter_EncodesU64(counter, state) ==
  write_storage(state, CounterKey, SubSeq(EncodeU128(counter), 1, U64Bytes))

\* write_counter writing under another key
write_counter_UnderOtherKey(counter, state) ==
  write_storage(state, OtherKey, EncodeU128(counter))

\* Executor::write_counter
write_counter(counter, state) ==
  write_storage(state, CounterKey, EncodeU128(counter))

\* `counter += add` stopping at 2^128 - 1 where the build does not check
AddAssign_Saturates(counter, add) ==
  IF AddOverflows(counter, add)
    THEN (IF overflowChecks THEN Panic ELSE Ok(U128Max))
  ELSE Ok(WrappingAdd(counter, add))

\* `counter += add` on u128: panics on overflow when the build checks
\* overflow, wraps otherwise
AddAssign(counter, add) ==
  IF AddOverflows(counter, add) /\ overflowChecks THEN Panic
  ELSE Ok(WrappingAdd(counter, add))

\* the loop leaving after its first iteration
Fold_FirstOnly(counter, extrinsics) ==
  IF extrinsics = <<>> THEN Ok(counter)
  ELSE AddAssign(counter, Head(extrinsics).add)

\* the loop `for extrinsic in &block.extrinsics { counter += add }`
RECURSIVE Fold(_, _)
Fold(counter, extrinsics) ==
  IF extrinsics = <<>> THEN Ok(counter)
  ELSE LET r == AddAssign(counter, Head(extrinsics).add) IN
       IF r.ok THEN Fold(r.val, Tail(extrinsics)) ELSE r

\* execute_block testing one byte of the identity fewer
execute_block_ChecksOneByteLess(block, state, fault) ==
  IF ~is_all_zero(SubSeq(id(block), 1, DIFFICULTY - 1))
    THEN [res |-> Err("DifficultyTooLow", "None"), state |-> state]
  ELSE LET rd == read_counter(state, fault) IN
       IF ~rd.res.ok THEN [res |-> rd.res, state |-> rd.state]
       ELSE LET f == Fold(rd.res.val, block.extrinsics) IN
            IF ~f.ok THEN [res |-> f, state |-> rd.state]
            ELSE [res |-> Ok(<<>>), state |-> write_counter(f.val, rd.state)]

\* execute_block leaving out the write when the block has no extrinsics
execute_block_SkipsEmptyWrite(block, state, fault) ==
  IF ~is_all_zero(SubSeq(id(block), 1, DIFFICULTY))
    THEN [res |-> Err("DifficultyTooLow", "None"), state |-> state]
  ELSE LET rd == read_counter(state, fault) IN
       IF ~rd.res.ok THEN [res |-> rd.res, state |-> rd.state]
       ELSE LET f == Fold(rd.res.val, block.extrinsics) IN
            IF ~f.ok THEN [res |-> f, state |-> rd.state]
            ELSE IF block.extrinsics = <<>> THEN [res |-> Ok(<<>>), state |-> rd.state]
            ELSE [res |-> Ok(<<>>), state |-> write_counter(f.val, rd.state)]

\* execute_block letting a block without a parent pass the difficulty check
execute_block_ExemptsGenesis(block, state, fault) ==
  IF IsSome(block.parent_hash) /\ ~is_all_zero(SubSeq(id(block), 1, DIFFICULTY))
    THEN [res |-> Err("DifficultyTooLow", "None"), state |-> state]
  ELSE LET rd == read_counter(state, fault) IN
       IF ~rd.res.ok THEN [res |-> rd.res, state |-> rd.state]
       ELSE LET f == Fold(rd.res.val, block.extrinsics) IN
            IF ~f.ok THEN [res |-> f, state |-> rd.state]
            ELSE [res |-> Ok(<<>>), state |-> write_counter(f.val, rd.state)]

\* <Executor as BlockExecutor>::execute_block
execute_block(block, state, fault) ==
  IF ~is_all_zero(SubSeq(id(block), 1, DIFFICULTY))
    THEN [res |-> Err("DifficultyTooLow", "None"), state |-> state]
  ELSE LET rd == read_counter(state, fault) IN
       IF ~rd.res.ok THEN [res |-> rd.res, state |-> rd.state]
       ELSE LET f == Fold(rd.res.val, block.extrinsics) IN
            IF ~f.ok THEN [res |-> f, state |-> rd.state]
            ELSE [res |-> Ok(<<>>), state |-> write_counter(f.val, rd.state)]

\* ------------------------------------------------------------------ builder
\* initialize_block handing on the parent reference of the block it is given
initialize_block_KeepsParentReference(block, state) ==
  [res   |-> Ok([parent_hash |-> block.parent_hash, extrinsics |-> <<>>]),
   state |-> state]

\* <Executor as BuilderExecutor>::initialize_block
initialize_block(block, state) ==
  [res   |-> Ok([parent_hash |-> Some(id(block)), extrinsics |-> <<>>]),
   state |-> state]

\* apply_extrinsic resetting an undecodable counter before it reports it
apply_extrinsic_ResetsCorrupted(block, extrinsic, state, fault) ==
  LET rd == read_counter(state, fault) IN
  IF ~rd.res.ok
    THEN [res |-> rd.res, block |-> block,
          state |-> IF rd.res.err.kind = "StateCorruption"
                      THEN write_counter(U128(0), rd.state) ELSE rd.state]
  ELSE LET r == AddAssign(rd.res.val, extrinsic.add) IN
       IF ~r.ok THEN [res |-> r, block |-> block, state |-> rd.state]
       ELSE [res |-> Ok(<<>>), block |-> block,
             state |-> write_counter(r.val, rd.state)]

\* apply_extrinsic pushing the extrinsic onto the block it is handed
apply_extrinsic_RecordsExtrinsic(block, extrinsic, state, fault) ==
  LET rd == read_counter(state, fault) IN
  IF ~rd.res.ok THEN [res |-> rd.res, block |-> block, state |-> rd.state]
  ELSE LET r == AddAssign(rd.res.val, extrinsic.add) IN
       IF ~r.ok THEN [res |-> r, block |-> block, state |-> rd.state]
       ELSE [res |-> Ok(<<>>),
             block |-> [block EXCEPT !.extrinsics = Append(@, extrinsic)],
             state |-> write_counter(r.val, rd.state)]

\* <Executor as BuilderExecutor>::apply_extrinsic
apply_extrinsic(block, extrinsic, state, fault) ==
  LET rd == read_counter(state, fault) IN
  IF ~rd.res.ok THEN [res |-> rd.res, block |-> block, state |-> rd.state]
  ELSE LET r == AddAssign(rd.res.val, extrinsic.add) IN
       IF ~r.ok THEN [res |-> r, block |-> block, state |-> rd.state]
       ELSE [res |-> Ok(<<>>), block |-> block,
             state |-> write_counter(r.val, rd.state)]

\* finalize_block reading the counter and writing it back
finalize_block_CommitsCounter(block, state) ==
  LET rd == read_counter(state, None) IN
  IF ~rd.res.ok THEN [res |-> rd.res, block |-> block, state |-> rd.state]
  ELSE [res |-> Ok(<<>>), block |-> block,
        state |-> write_counter(rd.res.val, rd.state)]

\* <Executor as BuilderExecutor>::finalize_block
finalize_block(block, state) ==
  [res |-> Ok(<<>>), block |-> block, state |-> state]

\* ------------------------------------------------------------------ sealing
\* the candidate of seal with its search started at nonce 1
seal_candidate_StartsAtOne(unsealed) ==
  [parent_hash |-> unsealed.parent_hash,
   extrinsics  |-> unsealed.extrinsics,
   nonce       |-> U64(1)]
\* UnsealedBlock::seal, the candidate built before the loop
seal_candidate(unsealed) ==
  [parent_hash |-> unsealed.parent_hash,
   extrinsics  |-> unsealed.extrinsics,
   nonce       |-> U64(0)]
\* the loop condition of seal testing one byte of the identity fewer
seal_continues_OneByteLess(block) ==
  ~is_all_zero(SubSeq(id(block), 1, DIFFICULTY - 1))
\* the loop condition of seal
seal_continues(block) == ~is_all_zero(SubSeq(id(block), 1, DIFFICULTY))
\* the loop body of seal, `block.nonce += 1` on u64: at 2^64 - 1 it panics
\* when the build checks overflow and wraps to 0 otherwise
seal_step(block) ==
  IF block.nonce = U64Max /\ overflowChecks THEN Panic
  ELSE Ok([block EXCEPT !.nonce = WrappingInc(@)])

\* the loop of seal run from a candidate to its end: Ok(block) when it
\* returns, Panic when the nonce overflows in a build that checks
RECURSIVE seal_loop(_)
seal_loop(block) ==
  IF seal_continues(block)
    THEN LET r == seal_step(block) IN
         IF r.ok THEN seal_loop(r.val) ELSE r
  ELSE Ok(block)
\* seal returning the block it found without its parent reference
seal_ReturnsParentless(unsealed) ==
  LET r == seal_loop(seal_candidate(unsealed)) IN
  IF r.ok THEN Ok([r.val EXCEPT !.parent_hash = None]) ELSE r
\* UnsealedBlock::seal as a whole
seal(unsealed) == seal_loop(seal_candidate(unsealed))

\* ------------------------------------------------------------------- inputs
\* the magnitudes extrinsics carry
Magnitudes == {U128(3), U128(5)}
Extrinsics == {Add(m) : m \in Magnitudes}
\* the operation lists of the blocks on the wire: Add(3), Add(5), Add(3), ...
\* cut at every length up to MaxOps
ExtrinsicLists ==
  {[i \in 1..n |-> IF i % 2 = 1 THEN Add(U128(3)) ELSE Add(U128(5))] : n \in 0..MaxOps}
\* the outcome of one store read: it works, or the store reports a failure
Faults == {None, Some(StoreFault)}
\* the body that carries extrinsics on the parent picked for them
EasyBody(extrinsics) ==
  [parent_hash |-> Some(id(EasyParent(extrinsics))), extrinsics |-> extrinsics]
\* block bodies that reach this node from outside
WireBodies == {EasyBody(es) : es \in ExtrinsicLists}
\* the unsealed blocks seal is applied to as a function: the wire bodies, and
\* a body that nonce 0 seals
SealInputs == WireBodies \cup {EasyBody(<<Add(U128(5))>>)}
\* blocks that reach execute_block from outside (decoded from the wire):
\* bodies a miner has sealed, and the same bodies with an arbitrary nonce
WireBlocks ==
  {seal(u).val : u \in WireBodies}
    \cup {[seal_candidate(u) EXCEPT !.nonce = U64(n)] : u \in WireBodies, n \in 0..MaxNonce}
\* the counter entries a store can hold at the start: none, valid encodings
\* (250, and 2^128 - 5), bytes too short to decode
InitialCounters ==
  {None,
   Some(EncodeU128(U128(250))),
   Some(EncodeU128([U128Max EXCEPT ![U128Bytes] = 251])),
   Some(<<1, 2, 3>>)}
InitialStores ==
  {[k \in Keys |-> IF k = CounterKey THEN c ELSE Some(<<7>>)] : c \in InitialCounters}

\* the record of a call: which function, on which store, its arguments, how
\* the store answered its read, its result, the store before it, its accesses
NoCall == [call |-> "none", target |-> "none", block |-> None, extrinsic |-> None,
           fault |-> None, res |-> Ok(<<>>), before |-> None, log |-> <<>>]
Call(name, target, block, extrinsic, fault, res, before, log) ==
  [call |-> name, target |-> target, block |-> block, extrinsic |-> extrinsic,
   fault |-> fault, res |-> res, before |-> Some(before), log |-> log]

\* the thread has panicked: nothing runs after that
Panicked == last.res.err.kind = "Panic"
\* no call is running (seal blocks its caller until it returns)
Idle == candidate = None /\ ~Panicked

Init ==
  /\ overflowChecks \in BOOLEAN
  /\ store \in InitialStores
  /\ replica = store
  /\ building = None
  /\ candidate = None
  /\ sealed = None
  /\ submitted = <<>>
  /\ calls = 0
  /\ last = NoCall

\* ------------------------------------------------------------------ actions
\* execute_block(block, store)
ExecuteBlock(block, fault) ==
  /\ Idle
  /\ calls < MaxCalls
  /\ LET r == execute_block(block, Externalities(store), fault) IN
       /\ store' = r.state.kv
       /\ last' = Call("execute_block", "store", Some(block), None, fault, r.res,
                       store, r.state.log)
  /\ calls' = calls + 1
  /\ UNCHANGED <<overflowChecks, replica, building, candidate,
                 sealed, submitted>>

\* execute_block(block, replica): a second node, whose store started in
\* the state this node's store started in, replays a block
ReplayBlock(block, fault) ==
  /\ candidate = None
  /\ LET r == execute_block(block, Externalities(replica), fault) IN
       /\ replica' = r.state.kv
       /\ last' = Call("execute_block", "replica", Some(block), None, fault, r.res,
                       replica, r.state.log)
  /\ UNCHANGED <<overflowChecks, store, building, candidate, sealed,
                 submitted, calls>>

\* initialize_block(parent, store, ())
InitializeBlock(parent) ==
  /\ Idle
  /\ calls < MaxCalls
  /\ LET r == initialize_block(parent, Externalities(store)) IN
       /\ building' = Some(r.res.val)
       /\ store' = r.state.kv
       /\ last' = Call("initialize_block", "store", Some(parent), None, None,
                       Ok(<<>>), store, r.state.log)
  /\ submitted' = <<>>
  /\ calls' = calls + 1
  /\ UNCHANGED <<overflowChecks, replica, candidate, sealed>>

\* apply_extrinsic(&mut building, extrinsic, store)
ApplyExtrinsic(extrinsic, fault) ==
  /\ Idle
  /\ IsSome(building)
  /\ calls < MaxCalls
  /\ LET r == apply_extrinsic(Unwrap(building), extrinsic,
                              Externalities(store), fault) IN
       /\ building' = Some(r.block)
       /\ store' = r.state.kv
       /\ last' = Call("apply_extrinsic", "store", None, Some(extrinsic), fault,
                       r.res, store, r.state.log)
  /\ submitted' = Append(submitted, extrinsic)
  /\ calls' = calls + 1
  /\ UNCHANGED <<overflowChecks, replica, candidate, sealed>>

\* finalize_block(&mut building, store)
FinalizeBlock ==
  /\ Idle
  /\ IsSome(building)
  /\ calls < MaxCalls
  /\ LET r == finalize_block(Unwrap(building), Externalities(store)) IN
       /\ building' = Some(r.block)
       /\ store' = r.state.kv
       /\ last' = Call("finalize_block", "store", None, None, None, r.res,
                       store, r.state.log)
  /\ calls' = calls + 1
  /\ UNCHANGED <<overflowChecks, replica, candidate, sealed, submitted>>

\* building.seal() is entered: the unsealed block is consumed
SealBegin ==
  /\ Idle
  /\ IsSome(building)
  /\ calls < MaxCalls
  /\ candidate' = Some(seal_candidate(Unwrap(building)))
  /\ building' = None
  /\ calls' = calls + 1
  /\ UNCHANGED <<overflowChecks, store, replica, sealed, submitted, last>>

\* one iteration of the loop of seal: the nonce goes up, or the thread
\* panics on the overflow of the nonce
SealStep ==
  /\ IsSome(candidate)
  /\ Unwrap(candidate).nonce \in {U64(n) : n \in 0..(MaxSearch - 1)}
  /\ seal_continues(Unwrap(candidate))
  /\ LET r == seal_step(Unwrap(candidate)) IN
       IF r.ok
         THEN candidate' = Some(r.val) /\ last' = last
       ELSE /\ candidate' = None
            /\ last' = Call("seal", "none", candidate, None, None, r, store, <<>>)
  /\ UNCHANGED <<overflowChecks, store, replica, building, sealed,
                 submitted, calls>>

\* seal returns its block
SealReturn ==
  /\ IsSome(candidate)
  /\ ~seal_continues(Unwrap(candidate))
  /\ sealed' = candidate
  /\ candidate' = None
  /\ last' = Call("seal", "none", candidate, None, None, Ok(<<>>), store, <<>>)
  /\ UNCHANGED <<overflowChecks, store, replica, building,
                 submitted, calls>>

\* the blocks this node can be asked to execute: any block off the wire,
\* and the block it sealed itself
ExecutableBlocks ==
  WireBlocks \cup {genesis} \cup (IF IsSome(sealed) THEN {Unwrap(sealed)} ELSE {})
\* the blocks a new block can be built on
ParentBlocks ==
  {genesis, EasyParent(<<>>)} \cup (IF IsSome(sealed) THEN {Unwrap(sealed)} ELSE {})

Next ==
  \/ \E block \in ExecutableBlocks, fault \in Faults : ExecuteBlock(block, fault)
  \/ \E parent \in ParentBlocks : InitializeBlock(parent)
  \/ \E extrinsic \in Extrinsics, fault \in Faults : ApplyExtrinsic(extrinsic, fault)
  \/ FinalizeBlock
  \/ SealBegin
  \/ SealStep
  \/ SealReturn

Spec == Init /\ [][Next]_vars

\* ------------------------------------------------------------- two nodes
\* A producer builds one block on EasyParent(<<>>) against store (initialize_block,
\* apply_extrinsic until one fails, finalize_block, seal); a second node then
\* executes one block against replica: the block the producer sealed, or a
\* sealed block carrying the extrinsics the producer was handed.
Producing == last.target # "replica" /\ last.res.ok
SubmittedBlock ==
  seal(EasyBody(submitted)).val

NextNodes ==
  \/ last.call = "none" /\ InitializeBlock(EasyParent(<<>>))
  \/ \E extrinsic \in Extrinsics, fault \in Faults :
       Producing /\ ApplyExtrinsic(extrinsic, fault)
  \/ Producing /\ FinalizeBlock
  \/ Producing /\ SealBegin
  \/ SealStep
  \/ SealReturn
  \/ \E fault \in Faults :
       Producing /\ IsSome(sealed) /\ ReplayBlock(Unwrap(sealed), fault)
  \/ \E fault \in Faults :
       /\ last.target # "replica"
       /\ last.call = "apply_extrinsic"
       /\ ReplayBlock(SubmittedBlock, fault)

SpecNodes == Init /\ [][NextNodes]_vars

\* =================================================================== claims
\* the first DIFFICULTY bytes of identity(block) are all zero
HasLeadingZeros(block) == \A i \in 1..DIFFICULTY : id(block)[i] = 0
\* the last call was execute_block / apply_extrinsic on this node's store
Executed == last.call = "execute_block" /\ last.target = "store"
Applied == last.call = "apply_extrinsic" /\ last.target = "store"
\* the last call got as far as reading the counter
ReachedRead == Applied \/ (Executed /\ HasLeadingZeros(Unwrap(last.block)))
\* the extrinsics the last call was to fold into the counter
FoldedExtrinsics ==
  IF Executed THEN Unwrap(last.block).extrinsics ELSE <<Unwrap(last.extrinsic)>>
\* the counter entry of a store is missing / too short to decode
Absent(kv) == kv[CounterKey] = None
Undecodable(kv) == ~Absent(kv) /\ Len(Unwrap(kv[CounterKey])) < U128Bytes
\* the counter entry is missing or encodes a number below 2^24
IsSmall(kv) ==
  \/ Absent(kv)
  \/ /\ Len(Unwrap(kv[CounterKey])) = U128Bytes
     /\ \A i \in 4..U128Bytes : Unwrap(kv[CounterKey])[i] = 0
\* that number (0 for a missing entry)
NatOf(kv) ==
  IF Absent(kv) THEN 0
  ELSE Unwrap(kv[CounterKey])[1] + 256 * Unwrap(kv[CounterKey])[2]
         + 65536 * Unwrap(kv[CounterKey])[3]
\* the magnitude of an extrinsic as a number (magnitudes below 2^24)
MagnitudeOf(e) ==
  e.add[U128Bytes] + 256 * e.add[U128Bytes - 1] + 65536 * e.add[U128Bytes - 2]
RECURSIVE SumOf(_)
SumOf(es) == IF es = <<>> THEN 0 ELSE MagnitudeOf(Head(es)) + SumOf(Tail(es))
\* the counter entry encodes a number above 2^128 - 1 - 2^24
IsNearMax(kv) ==
  /\ ~Absent(kv)
  /\ Len(Unwrap(kv[CounterKey])) = U128Bytes
  /\ \A i \in 4..U128Bytes : Unwrap(kv[CounterKey])[i] = 255
\* how far that number is below 2^128 - 1
BelowMax(kv) ==
  (255 - Unwrap(kv[CounterKey])[1]) + 256 * (255 - Unwrap(kv[CounterKey])[2])
    + 65536 * (255 - Unwrap(kv[CounterKey])[3])
\* the accesses of the last call that are writes
Writes == {i \in 1..Len(last.log) : last.log[i].op = "write"}

\* seal, taken as a function, returns for every wire body a block that meets
\* the difficulty
WireBodiesSealToDifficulty ==
  \A u \in WireBodies : seal(u).ok /\ HasLeadingZeros(seal(u).val)

\* C1: whenever seal returns a block, the first DIFFICULTY bytes of the
\* identity of that block are all zero.
C1_SealedMeetsDifficulty ==
  /\ IsSome(sealed) => HasLeadingZeros(Unwrap(sealed))
  /\ WireBodiesSealToDifficulty
\* seal has returned a block after iterating its loop
C1_Witness ==
  /\ last.call = "seal"
  /\ IsSome(sealed)
  /\ Unwrap(sealed).nonce # U64(0)

\* C2: execute_block returns DifficultyTooLow exactly when the first
\* DIFFICULTY bytes of the block's identity are not all zero, and never on
\* a block seal returned.
C2_DifficultyTooLowIff ==
  Executed =>
    /\ (last.res.err.kind = "DifficultyTooLow")
         <=> ~HasLeadingZeros(Unwrap(last.block))
    /\ last.block = sealed => last.res.err.kind # "DifficultyTooLow"
\* the block seal returned has been executed
C2_Witness ==
  /\ Executed
  /\ IsSome(sealed)
  /\ last.block = sealed
  /\ last.res.ok

\* C3: a successful execute_block leaves the counter at its value before
\* the call plus the sum of the magnitudes of the block's extrinsics
\* when that does not overflow (checked on counters below 2^24, and on
\* counters within 2^24 of 2^128 - 1 that the sum does not take past it).
C3_ExecuteAddsSum ==
  /\ (Executed /\ last.res.ok /\ IsSmall(Unwrap(last.before))) =>
       /\ IsSmall(store)
       /\ ~Absent(store)
       /\ NatOf(store) = NatOf(Unwrap(last.before))
                           + SumOf(Unwrap(last.block).extrinsics)
  /\ (/\ Executed
      /\ last.res.ok
      /\ IsNearMax(Unwrap(last.before))
      /\ SumOf(Unwrap(last.block).extrinsics) <= BelowMax(Unwrap(last.before))) =>
       /\ IsNearMax(store)
       /\ BelowMax(store) = BelowMax(Unwrap(last.before))
                              - SumOf(Unwrap(last.block).extrinsics)
\* [Add(3), Add(5)] executed on a counter of 8, itself reached from the
\* empty store, leaves 16
C3_Witness ==
  /\ Executed
  /\ last.res.ok
  /\ Unwrap(last.block).extrinsics = <<Add(U128(3)), Add(U128(5))>>
  /\ ~Absent(Unwrap(last.before))
  /\ NatOf(Unwrap(last.before)) = 8
  /\ NatOf(store) = 16

\* C4: when execute_block or apply_extrinsic returns DifficultyTooLow,
\* StateCorruption or Backend, the store is what it was before the call and
\* no write was issued.
C4_FailureLeavesStore ==
  ((Executed \/ Applied)
     /\ last.res.err.kind \in {"DifficultyTooLow", "StateCorruption", "Backend"}) =>
    /\ store = Unwrap(last.before)
    /\ Writes = {}
\* apply_extrinsic has failed with StateCorruption
C4_Witness ==
  /\ Applied
  /\ last.res.err.kind = "StateCorruption"
  /\ Undecodable(store)

\* C7: when the counter entry does not decode as a u128 and the read
\* itself works, execute_block of a block that meets the difficulty, and
\* apply_extrinsic, return StateCorruption and leave the bytes as they are.
C7_CorruptionIsReported ==
  (ReachedRead /\ last.fault = None /\ Undecodable(Unwrap(last.before))) =>
    /\ last.res = Err("StateCorruption", "None")
    /\ store = Unwrap(last.before)
\* execute_block of a block that meets the difficulty has met undecodable bytes
C7_Witness ==
  /\ Executed
  /\ HasLeadingZeros(Unwrap(last.block))
  /\ last.fault = None
  /\ Undecodable(Unwrap(last.before))

\* C8: when the store has no counter entry and the read works,
\* execute_block of a block that meets the difficulty, and apply_extrinsic,
\* succeed and store the sum of the magnitudes, the fold having started at 0.
C8_AbsentReadsAsZero ==
  (ReachedRead /\ last.fault = None /\ Absent(Unwrap(last.before))) =>
    /\ last.res.ok
    /\ ~Absent(store)
    /\ IsSmall(store)
    /\ NatOf(store) = SumOf(FoldedExtrinsics)
\* apply_extrinsic has run on a store without counter entry
C8_Witness ==
  /\ Applied
  /\ last.fault = None
  /\ Absent(Unwrap(last.before))
  /\ NatOf(store) = 5

\* C9: when the store fails the read of execute_block or apply_extrinsic,
\* the call returns Backend wrapping the store's failure, after that one
\* read and without a write.
C9_StoreFailureIsBackend ==
  (ReachedRead /\ IsSome(last.fault)) =>
    /\ last.res = Err("Backend", Unwrap(last.fault))
    /\ last.log = <<[op |-> "read", key |-> CounterKey]>>
    /\ store = Unwrap(last.before)
\* the store has failed the read of an execute_block that passed the
\* difficulty check
C9_Witness ==
  /\ Executed
  /\ HasLeadingZeros(Unwrap(last.block))
  /\ IsSome(last.fault)
  /\ last.res.err.kind = "Backend"

\* C10: a successful execute_block makes exactly one store read and then
\* exactly one store write, whatever the number of extrinsics.
C10_OneReadThenOneWrite ==
  (Executed /\ last.res.ok) =>
    last.log = <<[op |-> "read", key |-> CounterKey],
                 [op |-> "write", key |-> CounterKey]>>
\* a block without extrinsics has been executed successfully
C10_Witness ==
  /\ Executed
  /\ last.res.ok
  /\ Unwrap(last.block).extrinsics = <<>>
  /\ Len(last.log) = 2

\* the counter a store holds: its decoded entry, 0 when it has none
CounterOf(kv) ==
  IF Absent(kv) THEN U128(0) ELSE Unwrap(DecodeU128(Unwrap(kv[CounterKey])))
\* the second node has executed a block
Replayed == last.call = "execute_block" /\ last.target = "replica"

\* C5: when the block the producer built (initialize_block, successful
\* apply_extrinsic calls, seal) is executed successfully against a store that
\* started as the producer's store did, that store's counter equals the
\* counter of the producer's store.
C5_ReplayReachesProducerCounter ==
  (Replayed /\ IsSome(sealed) /\ last.block = sealed /\ last.res.ok) =>
    CounterOf(replica) = CounterOf(store)

\* C6: applying the extrinsics o1..ok (k >= 1) one apply_extrinsic call
\* each, and executing one sealed block that carries o1..ok against a store
\* that started in the same state, end in the same store contents and the
\* same outcome (store failures aside).
C6_BuilderAndExecutorAgree ==
  [][(/\ last.call = "apply_extrinsic"
      /\ last'.call = "execute_block"
      /\ last'.target = "replica"
      /\ Unwrap(last'.block).extrinsics = submitted
      /\ last.res.err.kind # "Backend"
      /\ last'.res.err.kind # "Backend")
     => (replica' = store' /\ last'.res = last.res)]_vars

\* the last call was initialize_block / finalize_block and has returned
Initialized == last.call = "initialize_block" /\ candidate = None
Finalized == last.call = "finalize_block" /\ candidate = None

\* C11: initialize_block(parent) returns an unsealed block whose parent_hash
\* is the identity of parent and whose extrinsics are empty, and it neither
\* reads nor writes the store: the store is as it was before the call.
C11_InitializeBlockIsFresh ==
  Initialized =>
    /\ last.res.ok
    /\ building = Some([parent_hash |-> Some(id(Unwrap(last.block))),
                        extrinsics  |-> <<>>])
    /\ last.log = <<>>
    /\ store = Unwrap(last.before)
\* a block is begun on a block this node sealed, over a store holding a counter
C11_Witness ==
  /\ Initialized
  /\ IsSome(building)
  /\ IsSome(sealed)
  /\ last.block = sealed
  /\ Unwrap(building).parent_hash = Some(id(Unwrap(sealed)))
  /\ ~Absent(store)

\* C12: apply_extrinsic changes nothing but the store: the building block
\* has the parent_hash and the extrinsics after the call that it had before
\* it (the extrinsic is not appended), so that after any sequence of
\* initialize_block and apply_extrinsic calls the extrinsics of the building
\* block are still empty.
C12_ApplyLeavesBuildingBlock ==
  /\ [][(last'.call = "apply_extrinsic" /\ Len(submitted') = Len(submitted) + 1)
          => building' = building]_vars
  /\ [](IsSome(building) => Unwrap(building).extrinsics = <<>>)
\* two extrinsics were applied with success, the second has changed the
\* store, and the building block holds none
C12_Witness ==
  /\ Applied
  /\ last.res.ok
  /\ Len(submitted) = 2
  /\ store # Unwrap(last.before)
  /\ IsSome(building)
  /\ Unwrap(building).extrinsics = <<>>

\* C13: finalize_block does nothing: in every state in which it is called it
\* returns success, makes no store access, and leaves the store and the
\* building block as they were.
C13_FinalizeIsNoOp ==
  /\ [][(calls' = calls + 1 /\ candidate' = None /\ last'.call = "finalize_block")
          => (building' = building /\ store' = store)]_vars
  /\ [](Finalized =>
          last.res = Ok(<<>>) /\ last.log = <<>> /\ store = Unwrap(last.before))
\* finalize_block has returned over a store whose counter cannot be decoded
C13_Witness ==
  /\ Finalized
  /\ last.res.ok
  /\ IsSome(building)
  /\ Undecodable(store)

\* C14: execute_block makes no exception for genesis. Genesis is the block
\* without a parent, without extrinsics and with nonce 0; when execute_block
\* is called on it while its identity does not have DIFFICULTY leading zero
\* bytes, the result is DifficultyTooLow and the store is unchanged.
C14_GenesisIsNotExempt ==
  /\ genesis = [parent_hash |-> None, extrinsics |-> <<>>, nonce |-> U64(0)]
  /\ (Executed /\ last.block = Some(genesis) /\ ~HasLeadingZeros(genesis)) =>
       /\ last.res = Err("DifficultyTooLow", "None")
       /\ last.log = <<>>
       /\ store = Unwrap(last.before)
\* genesis, whose identity does not meet the difficulty, was executed and
\* refused over a store without a counter
C14_Witness ==
  /\ Executed
  /\ last.block = Some(genesis)
  /\ Unwrap(last.block).parent_hash = None
  /\ ~HasLeadingZeros(genesis)
  /\ last.res.err.kind = "DifficultyTooLow"
  /\ Absent(store)

\* block meets the difficulty and no smaller nonce does for its body
IsLeastNonce(block) ==
  /\ HasLeadingZeros(block)
  /\ \A n \in 0..(U64Value(block.nonce) - 1) :
       ~HasLeadingZeros([block EXCEPT !.nonce = U64(n)])

\* seal, taken as a function, starts its search at nonce 0 and returns for
\* each of its inputs the block of least nonce, which is nonce 0 when that
\* one meets the difficulty
SealInputsGetLeastNonce ==
  \A u \in SealInputs :
    /\ seal_candidate(u).nonce = U64(0)
    /\ seal(u).ok
    /\ IsLeastNonce(seal(u).val)
    /\ HasLeadingZeros([parent_hash |-> u.parent_hash,
                        extrinsics  |-> u.extrinsics,
                        nonce       |-> U64(0)]) => seal(u).val.nonce = U64(0)

\* C16: the nonce of the block seal returns is the least n >= 0 for which the
\* block (parent_hash, extrinsics, n) has DIFFICULTY leading zero identity
\* bytes: the search starts at 0, goes up in steps of 1 past nonces that do
\* not meet the difficulty only, and stops at the first that does (nonce 0
\* when that one already does).
C16_SealFindsLeastNonce ==
  /\ IsSome(sealed) => IsLeastNonce(Unwrap(sealed))
  /\ IsSome(candidate) =>
       \A n \in 0..(U64Value(Unwrap(candidate).nonce) - 1) :
         ~HasLeadingZeros([Unwrap(candidate) EXCEPT !.nonce = U64(n)])
  /\ SealInputsGetLeastNonce
\* one input of seal is sealed by nonce 0, one with extrinsics by a later nonce
SealInputsCoverNonceZero ==
  /\ \E u \in SealInputs : seal(u).val.nonce = U64(0)
  /\ \E u \in SealInputs : seal(u).val.nonce # U64(0) /\ u.extrinsics # <<>>
\* seal has returned a block after passing several nonces, the nonce before
\* the returned one among them, and one input of seal is sealed by nonce 0
C16_Witness ==
  /\ last.call = "seal"
  /\ IsSome(sealed)
  /\ U64Value(Unwrap(sealed).nonce) >= 2
  /\ ~HasLeadingZeros([Unwrap(sealed) EXCEPT !.nonce = U64(U64Value(@) - 1)])
  /\ SealInputsCoverNonceZero

\* the last call read a counter so close to 2^128 - 1 that adding its
\* extrinsics passes 2^128 - 1
Overflowed ==
  /\ ReachedRead
  /\ last.fault = None
  /\ IsNearMax(Unwrap(last.before))
  /\ SumOf(FoldedExtrinsics) > BelowMax(Unwrap(last.before))

\* C17: every value execute_block or apply_extrinsic writes under the counter
\* key is the encoding of an integer in 0..2^128-1 (16 bytes); when the
\* counter before the call plus the magnitudes added exceeds 2^128 - 1, the
\* call either aborts without writing or writes exactly the sum modulo
\* 2^128, never a saturated or otherwise different value.
C17_WritesStayInU128 ==
  /\ ((Executed \/ Applied) /\ Writes # {}) =>
       /\ IsSome(store[CounterKey])
       /\ Len(Unwrap(store[CounterKey])) = U128Bytes
       /\ \A i \in 1..U128Bytes : Unwrap(store[CounterKey])[i] \in 0..255
  /\ Overflowed =>
       \/ /\ last.res = Panic
          /\ overflowChecks
          /\ Writes = {}
          /\ store = Unwrap(last.before)
       \/ /\ last.res.ok
          /\ ~overflowChecks
          /\ Cardinality(Writes) = 1
          /\ ~Absent(store)
          /\ IsSmall(store)
          /\ NatOf(store) = SumOf(FoldedExtrinsics) - BelowMax(Unwrap(last.before)) - 1
\* a block of two extrinsics took the counter past 2^128 - 1 and the wrapped
\* sum was written: 2^128 - 5 plus 3 plus 5 leaves 3
C17_Witness ==
  /\ Executed
  /\ Overflowed
  /\ Len(FoldedExtrinsics) = 2
  /\ last.res.ok
  /\ Writes # {}
  /\ NatOf(store) = 3

\* two blocks, sealed or not, have the same parent reference and extrinsics
SameBody(a, b) == a.parent_hash = b.parent_hash /\ a.extrinsics = b.extrinsics

\* seal, taken as a function, keeps each of its inputs' parent reference
\* and extrinsics in its candidate and in the block it returns
SealInputsKeepBody ==
  \A u \in SealInputs :
    SameBody(seal_candidate(u), u) /\ seal(u).ok /\ SameBody(seal(u).val, u)

\* C18: seal changes nothing but the nonce: the block it returns has the
\* parent_hash and the extrinsics of the unsealed block it consumed, so that
\* the block got by initialize_block(parent) followed by seal has parent_id()
\* equal to the identity of parent.
C18_SealKeepsBody ==
  /\ [][/\ (candidate = None /\ IsSome(candidate')) =>
             SameBody(Unwrap(candidate'), Unwrap(building))
        /\ (IsSome(candidate) /\ IsSome(candidate')) =>
             SameBody(Unwrap(candidate'), Unwrap(candidate))
        /\ (IsSome(candidate) /\ candidate' = None) =>
             /\ SameBody(Unwrap(sealed'), Unwrap(candidate))
             /\ last.call = "initialize_block" =>
                  parent_id(Unwrap(sealed')) = Some(id(Unwrap(last.block)))]_vars
  /\ [](/\ SealInputsKeepBody
        /\ parent_id(seal(initialize_block(EasyParent(<<>>),
                                           Externalities(store)).res.val).val)
             = Some(id(EasyParent(<<>>))))
\* seal has returned, after a search of several nonces, a block begun on
\* EasyParent(<<>>): its parent_id is the identity of that block
C18_Witness ==
  /\ last.call = "seal"
  /\ IsSome(sealed)
  /\ last.block = sealed
  /\ Unwrap(sealed).nonce # U64(0)
  /\ parent_id(Unwrap(sealed)) = Some(id(EasyParent(<<>>)))
  /\ Unwrap(sealed).extrinsics = <<>>

\* C19: the core never corrupts its own state: from a store whose counter
\* entry is absent or decodable, after any sequence of execute_block,
\* initialize_block, apply_extrinsic and finalize_block calls the entry is
\* still absent or decodable, so no call returns StateCorruption unless
\* something else has written the key.  (No call here runs against replica,
\* which keeps the contents the store started with.)
C19_CoreKeepsCounterDecodable ==
  /\ [][~Undecodable(store) => ~Undecodable(store')]_vars
  /\ [](~Undecodable(replica) =>
          /\ ~Undecodable(store)
          /\ last.res.err.kind # "StateCorruption"
          /\ (~Absent(store) /\ store # replica) =>
               Len(Unwrap(store[CounterKey])) = U128Bytes)
\* from a store without a counter, a call has read back with success the
\* counter an earlier call wrote, and has written again
C19_Witness ==
  /\ Absent(replica)
  /\ ReachedRead
  /\ last.res.ok
  /\ ~Absent(Unwrap(last.before))
  /\ Unwrap(last.before) # replica
  /\ Writes # {}
  /\ ~Undecodable(store)

\* C20: execute_block and apply_extrinsic read and write the counter key
\* only: every access of every call names that key, and after any sequence
\* of calls every other key of the store holds the value it held at the
\* start (replica keeps the contents the store started with).
C20_OnlyCounterKeyTouched ==
  /\ DOMAIN store = Keys
  /\ \A k \in Keys \ {CounterKey} : store[k] = replica[k]
  /\ \A i \in 1..Len(last.log) : last.log[i].key = CounterKey
\* a call has read and written the counter, whose entry differs from the
\* initial one, while the other key holds its initial value
C20_Witness ==
  /\ Executed \/ Applied
  /\ last.res.ok
  /\ Len(last.log) = 2
  /\ store[CounterKey] # replica[CounterKey]
  /\ IsSome(store[OtherKey])
  /\ store[OtherKey] = replica[OtherKey]

====
